---- MODULE Spec2Model ----
(***************************************************************************)
(* Interval-capture session engine of MamaTracker: IntervalManager         *)
(* (interval-manager.js), the session part of DatabaseManager              *)
(* (database-manager.js), the interval dispatch of CaptureManager          *)
(* (capture-manager.js) and the startup path of ElectronCaptureApp         *)
(* (src/main/index.js).                                                    *)
(*                                                                         *)
(* Atomicity.  The process is single threaded.  better-sqlite3 statements  *)
(* run synchronously, so an `await dbManager.x()` only yields to the       *)
(* microtask queue; no timer callback or IPC handler can run in between.   *)
(* startSession, pauseSession, resumeSession, stopSession and              *)
(* resumeActiveSessions are therefore one step each.  A timer callback     *)
(* suspends for real I/O only inside captureManager.captureForInterval,    *)
(* so a tick is two steps: the firing (checks, dispatch) and the           *)
(* completion of the capture (record insert, counter update).              *)
(***************************************************************************)
EXTENDS Integers, Sequences, FiniteSets, TLC

\* ----- bounds -----------------------------------------------------------
MaxSessions == 2   \* session ids that uuidv4() can hand out
MaxCount    == 3   \* captures a session may start in one behaviour
MaxInflight == 2   \* overlapping in-flight captures per session
MaxTimers   == 2   \* live setInterval handles per session

Ids == 1..MaxSessions

CaptureTypes == {"screenshot", "camera", "both", "composite"}

Config(type, interval, max) ==
  [capture_type |-> type, interval_seconds |-> interval, max_captures |-> max]

\* the configs a caller passes; max_captures 0 models `max_captures: null`
Configs == {Config("screenshot", 5, 0), Config("camera", 10, 2),
            Config("both", 5, 1), Config("composite", 10, 1)}

\* configs the spec wants startSession to reject: a non-positive interval,
\* a capture type outside the four variants
BadIntervalConfigs == {Config("screenshot", 0, 0)}
BadTypeConfigs     == {Config("video", 5, 0)}

\* outcome of the two capture primitives of one tick
Outcomes == [screen : BOOLEAN, camera : BOOLEAN]

VARIABLES
  store,           \* table interval_sessions: id -> row, or NoRow
  captures,        \* table captures: rows inserted by the ticks of each session
  files,           \* image files in the save location, written by each session's ticks
  activeSessions,  \* IntervalManager.activeSessions: id -> session, or NoSession
  timers,          \* IntervalManager.timers: id -> index in intervals[id], 0 = no entry
  intervals,       \* live setInterval handles of each id, oldest first (closure data)
  inflight,        \* captures dispatched and not yet returned, per session
  initialized,     \* IntervalManager.initialize() has run in this process
  succ,            \* history: ticks of the session whose capture succeeded
  failed,          \* history: some tick of the session had a failing capture
  restarted,       \* history: the process has been restarted at least once
  result           \* history: what the last direct captureForInterval call gave its caller

vars == <<store, captures, files, activeSessions, timers, intervals, inflight,
          initialized, succ, failed, restarted, result>>

NoRow     == [status |-> "none"]
NoSession == [status |-> "none"]

\* ----- JavaScript Number arithmetic (IEEE 754 binary64) -----------------
\* a natural number is its sequence of bits, lowest first, without high
\* zeros; a Number >= 0 is [m |-> bits, e |-> exponent], the value m * 2^e
Precision == 53   \* significant bits of a Number
DivShift == 60    \* quotient bits computed before rounding (sizes < 2^6)

RECURSIVE NatBits(_)
NatBits(n) == IF n = 0 THEN <<>> ELSE <<n % 2>> \o NatBits(n \div 2)

Norm(b) ==
  IF \A i \in 1..Len(b) : b[i] = 0 THEN <<>>
  ELSE SubSeq(b, 1, CHOOSE i \in 1..Len(b) :
                      b[i] = 1 /\ \A j \in (i + 1)..Len(b) : b[j] = 0)

Bit(b, i) == IF i \in 1..Len(b) THEN b[i] ELSE 0

MaxOf(i, j) == IF i >= j THEN i ELSE j
MinOf(i, j) == IF i <= j THEN i ELSE j

\* [i \in 0..n |-> the value carried out of position i], from 0 at position
\* 0 by Step(carried, i); positions are taken in blocks of 8
Chain(Step, n) ==
  LET adv[s \in Nat, from \in Nat, cnt \in Nat] ==
        IF cnt = 0 THEN s ELSE Step[adv[s, from, cnt - 1], from + cnt]
      blk[k \in 0..(n \div 8)] ==
        IF k = 0 THEN 0 ELSE adv[blk[k - 1], (k - 1) * 8, 8]
  IN [i \in 0..n |-> adv[blk[i \div 8], (i \div 8) * 8, i % 8]]

AddBits(a, b) ==
  LET n == MaxOf(Len(a), Len(b))
      c == Chain([s \in Nat, i \in Nat |-> (Bit(a, i) + Bit(b, i) + s) \div 2], n + 1)
  IN Norm([i \in 1..(n + 1) |-> (Bit(a, i) + Bit(b, i) + c[i - 1]) % 2])

\* a - b for a >= b
SubBits(a, b) ==
  LET n == Len(a)
      br == Chain([s \in Nat, i \in Nat |-> IF Bit(a, i) - Bit(b, i) - s < 0 THEN 1 ELSE 0], n)
  IN Norm([i \in 1..n |-> (Bit(a, i) - Bit(b, i) - br[i - 1] + 2) % 2])

\* a * k for a small k
MulSmall(a, k) ==
  LET n == Len(a) + Len(NatBits(k))
      c == Chain([s \in Nat, i \in Nat |-> (Bit(a, i) * k + s) \div 2], n)
  IN Norm([i \in 1..n |-> (Bit(a, i) * k + c[i - 1]) % 2])

Shl(a, k) ==
  IF a = <<>> THEN <<>>
  ELSE [i \in 1..(Len(a) + k) |-> IF i <= k THEN 0 ELSE a[i - k]]

LessBits(a, b) ==
  \/ Len(a) < Len(b)
  \/ /\ Len(a) = Len(b)
     /\ \E i \in 1..Len(a) :
          /\ a[i] < b[i]
          /\ \A j \in (i + 1)..Len(a) : a[j] = b[j]

NumberOf(n) == [m |-> NatBits(n), e |-> 0]

\* both mantissas at the smaller exponent
Aligned(x, y) ==
  LET e == MinOf(x.e, y.e)
  IN [x |-> Shl(x.m, x.e - e), y |-> Shl(y.m, y.e - e), e |-> e]

Less(x, y) == LET A == Aligned(x, y) IN LessBits(A.x, A.y)
Same(x, y) == LET A == Aligned(x, y) IN A.x = A.y
AtMost(x, y) == ~Less(y, x)

\* the exact sum and difference (x >= y)
Sum(x, y) == LET A == Aligned(x, y) IN [m |-> AddBits(A.x, A.y), e |-> A.e]
Difference(x, y) == LET A == Aligned(x, y) IN [m |-> SubBits(A.x, A.y), e |-> A.e]

\* round to nearest, ties to even, at Precision significant bits
Round(x) ==
  LET d == Len(x.m) - Precision
  IN IF d <= 0 THEN x
     ELSE LET kept   == SubSeq(x.m, d + 1, Len(x.m))
              sticky == \E i \in 1..(d - 1) : x.m[i] = 1
              up     == x.m[d] = 1 /\ (sticky \/ kept[1] = 1)
          IN [m |-> IF up THEN AddBits(kept, <<1>>) ELSE kept, e |-> x.e + d]

\* a / b for small positive integers a and b: long division of a * 2^DivShift
\* by b, one more bit for a non-zero remainder, then rounding
Quotient(a, b) ==
  LET num == Shl(NatBits(a), DivShift)
      n   == Len(num)
      \* r[i]: the remainder after the i highest bits of the numerator
      r == Chain([s \in Nat, i \in Nat |-> (2 * s + num[n + 1 - i]) % b], n)
      q == [j \in 1..n |-> (2 * r[n - j] + num[j]) \div b]
      inexact == IF r[n] # 0 THEN 1 ELSE 0
  IN Round([m |-> Norm(<<inexact>> \o q), e |-> 0 - DivShift - 1])

\* x * 0.25, exact for the sizes of an image
QuarterOf(n) == [m |-> NatBits(n), e |-> 0 - 2]

\* x * (n * 0.25), rounded
TimesQuarterOf(x, n) == Round([m |-> MulSmall(x.m, n), e |-> x.e - 2])

\* the integer a bit sequence stands for (small values only)
RECURSIVE BitsNat(_)
BitsNat(b) == IF b = <<>> THEN 0 ELSE b[1] + 2 * BitsNat(Tail(b))

\* Math.floor(x)
MathFloor(x) ==
  IF x.e >= 0 THEN BitsNat(Shl(x.m, x.e))
  ELSE BitsNat(SubSeq(x.m, 1 - x.e, Len(x.m)))

\* Math.round(x): the nearest integer, a tie going up
MathRound(x) ==
  IF x.e >= 0 THEN BitsNat(Shl(x.m, x.e))
  ELSE BitsNat(SubSeq(x.m, 1 - x.e, Len(x.m))) + Bit(x.m, 0 - x.e)

\* x * 100, rounded
TimesHundred(x) == Round([m |-> MulSmall(x.m, 100), e |-> x.e])

\* ----- takeCompositeCapture: size and position of the camera overlay -----
paddingX == 20
paddingY == 20

OverlayLayout(W, H, camW, camH) ==
  LET maxWidth  == QuarterOf(W)
      maxHeight == QuarterOf(H)
      \* cameraImage.width / cameraImage.height > maxWidth / maxHeight
      wider     == Less(Quotient(W, H), Quotient(camW, camH))
      cameraWidth  == IF wider THEN maxWidth
                      ELSE TimesQuarterOf(Quotient(camW, camH), H)
      cameraHeight == IF wider THEN TimesQuarterOf(Quotient(camH, camW), W)
                      ELSE maxHeight
  IN [cameraWidth  |-> cameraWidth,
      cameraHeight |-> cameraHeight,
      cameraX |-> Round(Difference(Round(Difference(NumberOf(W), cameraWidth)),
                                    NumberOf(paddingX))),
      cameraY |-> Round(Difference(Round(Difference(NumberOf(H), cameraHeight)),
                                    NumberOf(paddingY)))]

\* ----- DatabaseManager --------------------------------------------------
InsertSession(st, id, sessionData) ==
  [st EXCEPT ![id] = [status           |-> "active",
                      capture_count    |-> 0,
                      capture_type     |-> sessionData.capture_type,
                      interval_seconds |-> sessionData.interval_seconds,
                      max_captures     |-> sessionData.max_captures,
                      end_time         |-> "null"]]

\* the INSERT passes the table's CHECK(capture_type IN (...)); interval_seconds
\* is only NOT NULL
InsertAcceptedAny(sessionData) == TRUE

InsertAccepted(sessionData) == sessionData.capture_type \in CaptureTypes

\* updateSession(id, {status}) that changes no row
UpdateSessionStatusLost(st, id, status) == st

\* updateSession(id, {status}) that also stamps end_time
UpdateSessionStatusStamped(st, id, status) ==
  IF st[id] = NoRow THEN st
  ELSE [st EXCEPT ![id].status = status, ![id].end_time = "now"]

UpdateSessionStatus(st, id, status) ==
  IF st[id] = NoRow THEN st ELSE [st EXCEPT ![id].status = status]

UpdateSessionEnd(st, id, status) ==
  IF st[id] = NoRow THEN st
  ELSE [st EXCEPT ![id].status = status, ![id].end_time = "now"]

IncrementSessionCapturesWhenActive(st, id) ==
  IF st[id] = NoRow \/ st[id].status # "active" THEN st
  ELSE [st EXCEPT ![id].capture_count = @ + 1]

IncrementSessionCaptures(st, id) ==
  IF st[id] = NoRow THEN st ELSE [st EXCEPT ![id].capture_count = @ + 1]

GetActiveSessionsAll(st) == {id \in Ids : st[id] # NoRow}

GetActiveSessions(st) == {id \in Ids : st[id].status \in {"active", "paused"}}

\* ----- IntervalManager helpers -----------------------------------------
\* a live interval: the data its callback closes over and its period
ClosureSeconds(sessionData) ==
  [capture_type |-> sessionData.capture_type,
   max_captures |-> sessionData.max_captures,
   period_ms    |-> sessionData.interval_seconds]

Closure(sessionData) ==
  [capture_type |-> sessionData.capture_type,
   max_captures |-> sessionData.max_captures,
   period_ms    |-> sessionData.interval_seconds * 1000]

RemoveAt(s, k) == [i \in 1..(Len(s) - 1) |-> IF i < k THEN s[i] ELSE s[i + 1]]

\* a clearTimer that cancels the mapped handle of every session
ClearTimerAll(tm, iv, id) ==
  [timers    |-> [j \in Ids |-> 0],
   intervals |-> [j \in Ids |-> IF tm[j] # 0 THEN RemoveAt(iv[j], tm[j]) ELSE iv[j]]]

\* the pair (this.timers, live handles) after clearTimer(id)
ClearTimer(tm, iv, id) ==
  IF tm[id] # 0
  THEN [timers    |-> [tm EXCEPT ![id] = 0],
        intervals |-> [iv EXCEPT ![id] = RemoveAt(@, tm[id])]]
  ELSE [timers |-> tm, intervals |-> iv]

\* the pair after startSessionTimer(id, sessionData): a new handle is created
\* and this.timers.set(id, handle) replaces whatever entry was there
StartSessionTimer(tm, iv, id, sessionData) ==
  [timers    |-> [tm EXCEPT ![id] = Len(iv[id]) + 1],
   intervals |-> [iv EXCEPT ![id] = Append(@, Closure(sessionData))]]

FreshId == CHOOSE id \in Ids : store[id] = NoRow /\ \A j \in Ids : j < id => store[j] # NoRow

\* a row registered as if the session had just been created
SessionOfRowFresh(row) ==
  [status           |-> "active",
   capture_count    |-> 0,
   capture_type     |-> row.capture_type,
   interval_seconds |-> row.interval_seconds,
   max_captures     |-> row.max_captures]

SessionOfRow(row) ==
  [status           |-> row.status,
   capture_count    |-> row.capture_count,
   capture_type     |-> row.capture_type,
   interval_seconds |-> row.interval_seconds,
   max_captures     |-> row.max_captures]

NewSession(sessionData) ==
  [status           |-> "active",
   capture_count    |-> 0,
   capture_type     |-> sessionData.capture_type,
   interval_seconds |-> sessionData.interval_seconds,
   max_captures     |-> sessionData.max_captures]

Registered(id) == activeSessions[id] # NoSession

\* pauseSession, resumeSession and stopSession throw `Session not found`
\* unless activeSessions.get(sessionId) is defined
KnownSessionAlways(session) == TRUE

KnownSession(session) == session # NoSession

\* resumeSession throws `Session is not paused` unless the status is paused
ResumableAlways(session) == TRUE

Resumable(session) == session.status = "paused"

\* the callback goes on only for a registered session whose status is active
TickRunsWhenRegistered(session) == session # NoSession

TickRuns(session) == session # NoSession /\ session.status = "active"

\* resumeActiveSessions restarts a timer for the rows that pass this test
RestartsTimerAlways(row) == TRUE

RestartsTimer(row) == row.status = "active"

\* ----- CaptureManager.captureForInterval -------------------------------
\* o.screen and o.camera say whether the screen primitive (screenshot-desktop)
\* and the camera primitive (webcam.capture, imagesnap) delivered an image.
\* capturePhoto writes the file and inserts the row of a delivered image and
\* then builds its return value from `metadata`, a name that is not bound in
\* its scope: the ReferenceError is caught and rethrown, so capturePhoto
\* throws whatever the primitive did.
CapturePhotoReturns(o) == FALSE

\* the call throws to performCapture
Thrown(type, o) ==
  CASE type = "screenshot" -> ~o.screen
    [] type = "camera"     -> ~CapturePhotoReturns(o)
    [] type = "both"       -> ~o.screen /\ ~CapturePhotoReturns(o)
    [] type = "composite"  -> FALSE
    [] OTHER               -> TRUE

\* rows the call inserts into the captures table
InsertedOnScreenshot(type, o) ==
  CASE type = "screenshot" -> IF o.screen THEN 1 ELSE 0
    [] type = "camera"     -> IF o.camera THEN 1 ELSE 0
    [] type = "both"       -> (IF o.screen THEN 1 ELSE 0) + (IF o.camera THEN 1 ELSE 0)
    [] type = "composite"  -> IF o.screen THEN 1 ELSE 0
    [] OTHER               -> 0

Inserted(type, o) ==
  CASE type = "screenshot" -> IF o.screen THEN 1 ELSE 0
    [] type = "camera"     -> IF o.camera THEN 1 ELSE 0
    [] type = "both"       -> (IF o.screen THEN 1 ELSE 0) + (IF o.camera THEN 1 ELSE 0)
    [] type = "composite"  -> IF o.screen /\ o.camera THEN 1 ELSE 0
    [] OTHER               -> 0

\* image files the call writes into the save location; the composite's
\* camera shot goes to a temp directory and its screenshot stays in memory
Written(type, o) ==
  CASE type = "screenshot" -> IF o.screen THEN 1 ELSE 0
    [] type = "camera"     -> IF o.camera THEN 1 ELSE 0
    [] type = "both"       -> (IF o.screen THEN 1 ELSE 0) + (IF o.camera THEN 1 ELSE 0)
    [] type = "composite"  -> IF o.screen /\ o.camera THEN 1 ELSE 0
    [] OTHER               -> 0

\* the object captureForInterval returns: `parts` are the screenshot and
\* camera fields that only captureBoth sets, `primary` is the capture whose
\* fields are spread at the top level, `success` is the flag that only
\* takeCompositeCapture sets
Returned(type, o) ==
  CASE type = "screenshot" ->
         [primary |-> "screenshot", screenshot |-> "absent", camera |-> "absent",
          success |-> "absent"]
    [] type = "camera" ->
         [primary |-> "camera", screenshot |-> "absent", camera |-> "absent",
          success |-> "absent"]
    [] type = "both" ->
         [primary    |-> IF o.screen THEN "screenshot" ELSE "camera",
          screenshot |-> IF o.screen THEN "result" ELSE "null",
          camera     |-> IF CapturePhotoReturns(o) THEN "result" ELSE "null",
          success    |-> "absent"]
    [] type = "composite" ->
         [primary |-> IF o.screen /\ o.camera THEN "composite" ELSE "none",
          screenshot |-> "absent", camera |-> "absent",
          success |-> IF o.screen /\ o.camera THEN "true" ELSE "false"]

NoResult == [type |-> "none"]

\* the outcome of one captureForInterval(sessionId, type, deviceId) call
CallResult(type, o) ==
  IF Thrown(type, o)
  THEN [type |-> type, o |-> o, thrown |-> TRUE]
  ELSE [type |-> type, o |-> o, thrown |-> FALSE, value |-> Returned(type, o)]

\* the call gave its caller a capture (for `both`: at least one)
Succeeded(type, o) ==
  CASE type = "screenshot" -> o.screen
    [] type = "camera"     -> CapturePhotoReturns(o)
    [] type = "both"       -> o.screen \/ CapturePhotoReturns(o)
    [] type = "composite"  -> o.screen /\ o.camera
    [] OTHER               -> FALSE

store0 == [id \in Ids |-> NoRow]

\* ----- initial state: a fresh installation, process just constructed ----
Init ==
  /\ store = [id \in Ids |-> NoRow]
  /\ captures = [id \in Ids |-> 0]
  /\ files = [id \in Ids |-> 0]
  /\ activeSessions = [id \in Ids |-> NoSession]
  /\ timers = [id \in Ids |-> 0]
  /\ intervals = [id \in Ids |-> <<>>]
  /\ inflight = [id \in Ids |-> <<>>]
  /\ initialized = FALSE
  /\ succ = [id \in Ids |-> 0]
  /\ failed = [id \in Ids |-> FALSE]
  /\ restarted = FALSE
  /\ result = NoResult

\* ----- resumeActiveSessions --------------------------------------------
ResumeActiveSessionsEffect ==
  LET rows == GetActiveSessions(store)
      T(id) == StartSessionTimer(timers, intervals, id, store[id])
  IN /\ activeSessions' = [id \in Ids |->
           IF id \in rows THEN SessionOfRow(store[id]) ELSE activeSessions[id]]
     /\ timers' = [id \in Ids |->
           IF id \in rows /\ RestartsTimer(store[id]) THEN T(id).timers[id] ELSE timers[id]]
     /\ intervals' = [id \in Ids |->
           IF id \in rows /\ RestartsTimer(store[id]) THEN T(id).intervals[id]
           ELSE intervals[id]]

\* IntervalManager.initialize(), called once by ElectronCaptureApp.initialize()
Initialize ==
  /\ ~initialized
  /\ ResumeActiveSessionsEffect
  /\ initialized' = TRUE
  /\ UNCHANGED <<store, captures, files, inflight, succ, failed, restarted, result>>

\* createWindow (permissions granted) and the permissions-completed handler
ResumeActiveSessions ==
  /\ initialized
  /\ \A id \in Ids : Len(intervals[id]) < MaxTimers
  /\ ResumeActiveSessionsEffect
  /\ UNCHANGED <<store, captures, files, inflight, initialized, succ, failed, restarted, result>>

\* the process dies and is started again: only the database survives
Restart ==
  /\ activeSessions' = [id \in Ids |-> NoSession]
  /\ timers' = [id \in Ids |-> 0]
  /\ intervals' = [id \in Ids |-> <<>>]
  /\ inflight' = [id \in Ids |-> <<>>]
  /\ initialized' = FALSE
  /\ restarted' = TRUE
  /\ UNCHANGED <<store, captures, files, succ, failed, result>>

\* ----- startSession ------------------------------------------------------
\* insertSession throws on a constraint violation and startSession rethrows
\* before it arms the timer or registers the session
StartSession(config) ==
  /\ initialized
  /\ \E id \in Ids : store[id] = NoRow
  /\ IF ~InsertAccepted(config)
     THEN UNCHANGED <<store, activeSessions, timers, intervals>>
     ELSE LET id == FreshId
              T  == StartSessionTimer(timers, intervals, id, config)
          IN /\ store' = InsertSession(store, id, config)
             /\ timers' = T.timers
             /\ intervals' = T.intervals
             /\ activeSessions' = [activeSessions EXCEPT ![id] = NewSession(config)]
  /\ UNCHANGED <<captures, files, inflight, initialized, succ, failed, restarted, result>>

\* ----- pauseSession ------------------------------------------------------
PauseSession(id) ==
  /\ initialized
  /\ IF ~KnownSession(activeSessions[id])
     THEN UNCHANGED <<store, activeSessions, timers, intervals>>
     ELSE LET C == ClearTimer(timers, intervals, id)
          IN /\ timers' = C.timers
             /\ intervals' = C.intervals
             /\ activeSessions' = [activeSessions EXCEPT ![id].status = "paused"]
             /\ store' = UpdateSessionStatus(store, id, "paused")
  /\ UNCHANGED <<captures, files, inflight, initialized, succ, failed, restarted, result>>

\* ----- resumeSession -----------------------------------------------------
ResumeSession(id) ==
  /\ initialized
  /\ IF ~KnownSession(activeSessions[id])
     THEN UNCHANGED <<store, activeSessions, timers, intervals>>
     ELSE IF ~Resumable(activeSessions[id])
     THEN UNCHANGED <<store, activeSessions, timers, intervals>>
     ELSE LET T == StartSessionTimer(timers, intervals, id, activeSessions[id])
          IN /\ activeSessions' = [activeSessions EXCEPT ![id].status = "active"]
             /\ timers' = T.timers
             /\ intervals' = T.intervals
             /\ store' = UpdateSessionStatus(store, id, "active")
  /\ UNCHANGED <<captures, files, inflight, initialized, succ, failed, restarted, result>>

\* ----- stopSession -------------------------------------------------------
\* the status stopSession writes; the code has one literal for every cause
StopStatus(cause) == "completed"

\* stopSession(id) on a registered session
StopSessionEffect(id, cause) ==
  LET C == ClearTimer(timers, intervals, id)
  IN /\ timers' = C.timers
     /\ intervals' = C.intervals
     /\ activeSessions' = [activeSessions EXCEPT ![id] = NoSession]
     /\ store' = UpdateSessionEnd(store, id, StopStatus(cause))

\* the stop-interval-capture handler and the tray menu's Stop item
StopSession(id) ==
  /\ initialized
  /\ IF ~KnownSession(activeSessions[id])
     THEN UNCHANGED <<store, activeSessions, timers, intervals>>
     ELSE /\ StopSessionEffect(id, "caller")
  /\ UNCHANGED <<captures, files, inflight, initialized, succ, failed, restarted, result>>

\* ----- the timer callback of startSessionTimer ------------------------
\* the session is gone or not active: clearTimer(sessionId) and return
TickClear(id, k) ==
  /\ k \in 1..Len(intervals[id])
  /\ ~TickRuns(activeSessions[id])
  /\ LET C == ClearTimer(timers, intervals, id)
     IN /\ timers' = C.timers
        /\ intervals' = C.intervals
  /\ UNCHANGED <<store, captures, files, activeSessions, inflight, initialized, succ, failed, restarted, result>>

\* the closure's max_captures is reached by the in-memory count: stopSession
TickStop(id, k) ==
  /\ k \in 1..Len(intervals[id])
  /\ TickRuns(activeSessions[id])
  /\ intervals[id][k].max_captures # 0
  /\ activeSessions[id].capture_count >= intervals[id][k].max_captures
  /\ StopSessionEffect(id, "max")
  /\ UNCHANGED <<captures, files, inflight, initialized, succ, failed, restarted, result>>

\* otherwise performCapture dispatches captureForInterval and awaits it
TickCapture(id, k) ==
  /\ k \in 1..Len(intervals[id])
  /\ TickRuns(activeSessions[id])
  /\ ~(/\ intervals[id][k].max_captures # 0
       /\ activeSessions[id].capture_count >= intervals[id][k].max_captures)
  /\ Len(inflight[id]) < MaxInflight
  /\ store[id].capture_count + Len(inflight[id]) < MaxCount
  /\ files[id] + Len(inflight[id]) < MaxCount
  /\ inflight' = [inflight EXCEPT ![id] = Append(@, intervals[id][k].capture_type)]
  /\ UNCHANGED <<store, captures, files, activeSessions, timers, intervals, initialized,
                 succ, failed, restarted, result>>

\* updateSessionCaptureCount: increment in the database, read the row back,
\* copy its count into the registered session (if it is still registered)
\* what webContents.send does when notifySessionUpdate pushes the session
PushOutcomes == {"sent", "no window", "throws"}

\* updateSessionCaptureCount with the push moved before the assignment and
\* taken out of both try blocks
UpdateSessionCaptureCountNotifyFirst(st, as, id, p) ==
  LET st1 == IncrementSessionCaptures(st, id)
  IN [store          |-> st1,
      activeSessions |-> IF as[id] # NoSession /\ st1[id] # NoRow /\ p # "throws"
                         THEN [as EXCEPT ![id].capture_count = st1[id].capture_count]
                         ELSE as,
      thrown         |-> as[id] # NoSession /\ st1[id] # NoRow /\ p = "throws"]

\* updateSessionCaptureCount(id) when the push has outcome p: the database
\* and the registry it leaves, and whether it throws to its caller
UpdateSessionCaptureCount(st, as, id, p) ==
  LET st1 == IncrementSessionCaptures(st, id)
  IN [store          |-> st1,
      activeSessions |-> IF as[id] # NoSession /\ st1[id] # NoRow
                         THEN [as EXCEPT ![id].capture_count = st1[id].capture_count]
                         ELSE as,
      thrown         |-> FALSE]

\* updateSessionCaptureCount without the copy into the registered session
UpdateSessionCaptureCountInStoreOnly(id) ==
  /\ store' = IncrementSessionCaptures(store, id)
  /\ activeSessions' = activeSessions

UpdateSessionCaptureCountEffect(id) ==
  \E p \in PushOutcomes :
    LET R == UpdateSessionCaptureCount(store, activeSessions, id, p)
    IN /\ store' = R.store
       /\ activeSessions' = R.activeSessions

\* captureForInterval returns or throws; performCapture continues
CaptureDone(id, k, o) ==
  /\ k \in 1..Len(inflight[id])
  /\ LET type == inflight[id][k]
     IN /\ inflight' = [inflight EXCEPT ![id] = RemoveAt(@, k)]
        /\ captures' = [captures EXCEPT ![id] = @ + Inserted(type, o)]
        /\ files' = [files EXCEPT ![id] = @ + Written(type, o)]
        /\ IF Thrown(type, o)
           THEN UNCHANGED <<store, activeSessions>>
           ELSE UpdateSessionCaptureCountEffect(id)
        /\ succ' = [succ EXCEPT ![id] = IF Succeeded(type, o) THEN @ + 1 ELSE @]
        /\ failed' = [failed EXCEPT ![id] = @ \/ ~Succeeded(type, o)]
  /\ UNCHANGED <<timers, intervals, initialized, restarted, result>>

Next ==
  \/ Initialize
  \/ ResumeActiveSessions
  \/ Restart
  \/ \E config \in Configs \cup BadIntervalConfigs \cup BadTypeConfigs :
       StartSession(config)
  \/ \E id \in Ids : PauseSession(id)
  \/ \E id \in Ids : ResumeSession(id)
  \/ \E id \in Ids : StopSession(id)
  \/ \E id \in Ids : \E k \in 1..MaxTimers : TickClear(id, k)
  \/ \E id \in Ids : \E k \in 1..MaxTimers : TickStop(id, k)
  \/ \E id \in Ids : \E k \in 1..MaxTimers : TickCapture(id, k)
  \/ \E id \in Ids : \E k \in 1..MaxInflight : \E o \in Outcomes : CaptureDone(id, k, o)

Spec == Init /\ [][Next]_vars

\* ----- the dispatcher on its own: direct calls of captureForInterval ----
CaptureForIntervalCall(id, type) ==
  /\ Len(inflight[id]) < MaxInflight
  /\ files[id] < MaxCount
  /\ inflight' = [inflight EXCEPT ![id] = Append(@, type)]
  /\ UNCHANGED <<store, captures, files, activeSessions, timers, intervals, initialized,
                 succ, failed, restarted, result>>

CaptureForIntervalReturn(id, k, o) ==
  /\ k \in 1..Len(inflight[id])
  /\ LET type == inflight[id][k]
     IN /\ inflight' = [inflight EXCEPT ![id] = RemoveAt(@, k)]
        /\ captures' = [captures EXCEPT ![id] = @ + Inserted(type, o)]
        /\ files' = [files EXCEPT ![id] = @ + Written(type, o)]
        /\ result' = CallResult(type, o)
  /\ UNCHANGED <<store, activeSessions, timers, intervals, initialized,
                 succ, failed, restarted>>

NextDispatch ==
  \/ \E id \in Ids : \E type \in CaptureTypes : CaptureForIntervalCall(id, type)
  \/ \E id \in Ids : \E k \in 1..MaxInflight : \E o \in Outcomes :
       CaptureForIntervalReturn(id, k, o)

SpecDispatch == Init /\ [][NextDispatch]_vars

\* ----- captures in flight when pauseSession or stopSession has returned --
\* the state right after pauseSession or stopSession of sessions that were
\* started on a fresh installation and had n[id] ticks dispatch captures
\* which have not returned yet (nothing counted so far)
InitInFlight ==
  \E cfg \in [Ids -> Configs] :
  \E st \in [Ids -> {"paused", "completed", "none"}] :
  \E n \in [Ids -> 1..MaxInflight] :
    /\ \A id \in Ids : st[id] = "none" => \A j \in Ids : j > id => st[j] = "none"
    /\ \E id \in Ids : st[id] # "none"
    /\ store = [id \in Ids |->
                  CASE st[id] = "paused" ->
                         UpdateSessionStatus(InsertSession(store0, id, cfg[id]), id, "paused")[id]
                    [] st[id] = "completed" ->
                         UpdateSessionEnd(InsertSession(store0, id, cfg[id]), id, StopStatus("caller"))[id]
                    [] OTHER -> NoRow]
    /\ activeSessions = [id \in Ids |->
                  IF st[id] = "paused"
                  THEN [NewSession(cfg[id]) EXCEPT !.status = "paused"]
                  ELSE NoSession]
    /\ inflight = [id \in Ids |->
                  IF st[id] = "none" THEN <<>>
                  ELSE [i \in 1..n[id] |-> cfg[id].capture_type]]
    /\ captures = [id \in Ids |-> 0]
    /\ files = [id \in Ids |-> 0]
    /\ timers = [id \in Ids |-> 0]
    /\ intervals = [id \in Ids |-> <<>>]
    /\ initialized = TRUE
    /\ succ = [id \in Ids |-> 0]
    /\ failed = [id \in Ids |-> FALSE]
    /\ restarted = FALSE
    /\ result = NoResult

NextInFlight ==
  \/ \E id \in Ids : StopSession(id)
  \/ \E id \in Ids : \E k \in 1..MaxInflight : \E o \in Outcomes : CaptureDone(id, k, o)

SpecInFlight == InitInFlight /\ [][NextInFlight]_vars

\* ----- updateSessionCaptureCount on its own, with each push outcome ------
UpdateSessionCaptureCountCall(id, p) ==
  /\ store[id] # NoRow
  /\ store[id].capture_count < MaxCount
  /\ LET R == UpdateSessionCaptureCount(store, activeSessions, id, p)
     IN /\ store' = R.store
        /\ activeSessions' = R.activeSessions
        /\ result' = [type |-> "push", id |-> id, p |-> p, thrown |-> R.thrown]
  /\ UNCHANGED <<captures, files, timers, intervals, inflight, initialized,
                 succ, failed, restarted>>

NextNotify ==
  \/ Initialize
  \/ \E config \in Configs : StartSession(config)
  \/ \E id \in Ids : PauseSession(id)
  \/ \E id \in Ids : StopSession(id)
  \/ \E id \in Ids : \E p \in PushOutcomes : UpdateSessionCaptureCountCall(id, p)

SpecNotify == Init /\ [][NextNotify]_vars

\* ----- the overlay layout on its own: one composite capture of a screen
\* of W x H pixels with a camera frame of camW x camH pixels ---------------
ScreenWidths  == {27, 28, 32}
ScreenHeights == {28, 41, 42}
CameraWidths  == {3, 4, 9, 16}
CameraHeights == {3, 4, 9, 14}

ComputeOverlay(W, H, camW, camH) ==
  /\ result = NoResult
  /\ result' = [type |-> "overlay", W |-> W, H |-> H, camW |-> camW, camH |-> camH,
                layout |-> OverlayLayout(W, H, camW, camH)]
  /\ UNCHANGED <<store, captures, files, activeSessions, timers, intervals, inflight,
                 initialized, succ, failed, restarted>>

NextOverlay ==
  \E W \in ScreenWidths : \E H \in ScreenHeights :
  \E camW \in CameraWidths : \E camH \in CameraHeights :
    ComputeOverlay(W, H, camW, camH)

SpecOverlay == Init /\ [][NextOverlay]_vars

\* ----- getSessionStats ----------------------------------------------------
\* what getSessionStats returns for the registry entry `session`
Null == [kind |-> "null"]
NumberValue(n) == [kind |-> "number", value |-> n]

GetSessionStats(session) ==
  IF session = NoSession THEN Null
  ELSE [status        |-> session.status,
        capture_count |-> session.capture_count,
        max_captures  |-> session.max_captures,
        progress_percentage |->
          IF session.max_captures # 0
          THEN NumberValue(MathRound(TimesHundred(Quotient(session.capture_count,
                                                           session.max_captures))))
          ELSE Null]

\* ----- sessions left to run: no pause, resume, stop or restart, and every
\* capture primitive succeeds --------------------------------------------
RunConfigs == {Config("screenshot", 5, 3), Config("screenshot", 10, 2), Config("screenshot", 5, 0)}

AllSucceed == [screen |-> TRUE, camera |-> TRUE]

NextRun ==
  \/ Initialize
  \/ \E config \in RunConfigs : StartSession(config)
  \/ \E id \in Ids : \E k \in 1..MaxTimers : TickStop(id, k)
  \/ \E id \in Ids : \E k \in 1..MaxTimers : TickCapture(id, k)
  \/ \E id \in Ids : \E k \in 1..MaxInflight : CaptureDone(id, k, AllSucceed)

SpecRun == Init /\ [][NextRun]_vars

\* ----- the same, with one call of getSessionStats at any moment ---------
GetSessionStatsCall(id) ==
  /\ result = NoResult
  /\ result' = [type |-> "stats", id |-> id, registered |-> Registered(id),
                value |-> GetSessionStats(activeSessions[id])]
  /\ UNCHANGED <<store, captures, files, activeSessions, timers, intervals, inflight,
                 initialized, succ, failed, restarted>>

NextStats ==
  \/ NextRun
  \/ \E id \in Ids : GetSessionStatsCall(id)

SpecStats == Init /\ [][NextStats]_vars

\* ----- sessions left to run with a camera session among them; every
\* primitive delivers, setInterval keeps firing each live handle and every
\* capture call settles -----------------------------------------------------
CameraRunConfigs == {Config("camera", 5, 3), Config("screenshot", 10, 2)}

NextCameraRun ==
  \/ Initialize
  \/ \E config \in CameraRunConfigs : StartSession(config)
  \/ \E id \in Ids : \E k \in 1..MaxTimers : TickStop(id, k)
  \/ \E id \in Ids : \E k \in 1..MaxTimers : TickCapture(id, k)
  \/ \E id \in Ids : \E k \in 1..MaxInflight : CaptureDone(id, k, AllSucceed)

FairCameraRun ==
  \A id \in Ids :
    /\ \A k \in 1..MaxTimers : WF_vars(TickStop(id, k)) /\ WF_vars(TickCapture(id, k))
    /\ \A k \in 1..MaxInflight : WF_vars(CaptureDone(id, k, AllSucceed))

SpecCameraRun == Init /\ [][NextCameraRun]_vars /\ FairCameraRun

\* ----- the same, with the capture primitive of one session hanging: the
\* promise captureForInterval awaits for that session never settles --------
Stuck == 1

NextStall ==
  \/ Initialize
  \/ \E config \in RunConfigs : StartSession(config)
  \/ \E id \in Ids : \E k \in 1..MaxTimers : TickStop(id, k)
  \/ \E id \in Ids : \E k \in 1..MaxTimers : TickCapture(id, k)
  \/ \E id \in Ids \ {Stuck} : \E k \in 1..MaxInflight : CaptureDone(id, k, AllSucceed)

\* setInterval keeps firing each live handle, and a primitive that succeeds
\* returns
FairStall ==
  \A id \in Ids \ {Stuck} :
    /\ \A k \in 1..MaxTimers : WF_vars(TickStop(id, k)) /\ WF_vars(TickCapture(id, k))
    /\ \A k \in 1..MaxInflight : WF_vars(CaptureDone(id, k, AllSucceed))

SpecStall == Init /\ [][NextStall]_vars /\ FairStall

\* ----- updateSessionCaptureCount step by step: the database increment
\* and the copy of the row's count into the registry are separated by the
\* await of getSession, so other handlers run in between -------------------
\* a tick whose increment is done and whose getSession has not returned
Incremented == "incremented"

\* the registry with the count computed from the in-memory one
RefreshCaptureCountLocally(st, as, id) ==
  IF as[id] # NoSession /\ st[id] # NoRow
  THEN [as EXCEPT ![id].capture_count = @ + 1]
  ELSE as

\* session.capture_count = updatedSessionData.capture_count, when the row
\* exists and the session is still registered
RefreshCaptureCount(st, as, id) ==
  IF as[id] # NoSession /\ st[id] # NoRow
  THEN [as EXCEPT ![id].capture_count = st[id].capture_count]
  ELSE as

\* captureForInterval returns or throws; on a return performCapture calls
\* updateSessionCaptureCount, which runs up to its await of getSession
CaptureReturns(id, k, o) ==
  /\ k \in 1..Len(inflight[id])
  /\ inflight[id][k] # Incremented
  /\ LET type == inflight[id][k]
     IN /\ captures' = [captures EXCEPT ![id] = @ + Inserted(type, o)]
        /\ files' = [files EXCEPT ![id] = @ + Written(type, o)]
        /\ IF Thrown(type, o)
           THEN /\ inflight' = [inflight EXCEPT ![id] = RemoveAt(@, k)]
                /\ store' = store
           ELSE /\ inflight' = [inflight EXCEPT ![id][k] = Incremented]
                /\ store' = IncrementSessionCaptures(store, id)
        /\ succ' = [succ EXCEPT ![id] = IF Succeeded(type, o) THEN @ + 1 ELSE @]
        /\ failed' = [failed EXCEPT ![id] = @ \/ ~Succeeded(type, o)]
  /\ UNCHANGED <<activeSessions, timers, intervals, initialized, restarted, result>>

\* getSession returns and updateSessionCaptureCount finishes
RefreshCount(id, k) ==
  /\ k \in 1..Len(inflight[id])
  /\ inflight[id][k] = Incremented
  /\ inflight' = [inflight EXCEPT ![id] = RemoveAt(@, k)]
  /\ activeSessions' = RefreshCaptureCount(store, activeSessions, id)
  /\ UNCHANGED <<store, captures, files, timers, intervals, initialized,
                 succ, failed, restarted, result>>

NextRefresh ==
  \/ Initialize
  \/ ResumeActiveSessions
  \/ \E config \in RunConfigs : StartSession(config)
  \/ \E id \in Ids : PauseSession(id)
  \/ \E id \in Ids : ResumeSession(id)
  \/ \E id \in Ids : StopSession(id)
  \/ \E id \in Ids : \E k \in 1..MaxTimers : TickClear(id, k)
  \/ \E id \in Ids : \E k \in 1..MaxTimers : TickStop(id, k)
  \/ \E id \in Ids : \E k \in 1..MaxTimers : TickCapture(id, k)
  \/ \E id \in Ids : \E k \in 1..MaxInflight : \E o \in Outcomes : CaptureReturns(id, k, o)
  \/ \E id \in Ids : \E k \in 1..MaxInflight : RefreshCount(id, k)

SpecRefresh == Init /\ [][NextRefresh]_vars

\* ----- the session operations and the ticks of a running installation:
\* no process restart, and every startSession is given a valid config ------
NextOps ==
  \/ Initialize
  \/ ResumeActiveSessions
  \/ \E config \in RunConfigs : StartSession(config)
  \/ \E id \in Ids : PauseSession(id)
  \/ \E id \in Ids : ResumeSession(id)
  \/ \E id \in Ids : StopSession(id)
  \/ \E id \in Ids : \E k \in 1..MaxTimers : TickClear(id, k)
  \/ \E id \in Ids : \E k \in 1..MaxTimers : TickStop(id, k)
  \/ \E id \in Ids : \E k \in 1..MaxTimers : TickCapture(id, k)
  \/ \E id \in Ids : \E k \in 1..MaxInflight : \E o \in Outcomes : CaptureDone(id, k, o)

SpecOps == Init /\ [][NextOps]_vars

\* ----- the session operations when a database statement can throw (disk
\* full, I/O error, database locked by another process): each handler has
\* changed the registry and the timers before it awaits updateSession, and
\* its catch block logs and rethrows without undoing anything ---------------
PauseSessionWriteFails(id) ==
  /\ initialized
  /\ KnownSession(activeSessions[id])
  /\ LET C == ClearTimer(timers, intervals, id)
     IN /\ timers' = C.timers
        /\ intervals' = C.intervals
        /\ activeSessions' = [activeSessions EXCEPT ![id].status = "paused"]
  /\ UNCHANGED <<store, captures, files, inflight, initialized, succ, failed, restarted, result>>

ResumeSessionWriteFails(id) ==
  /\ initialized
  /\ KnownSession(activeSessions[id])
  /\ Resumable(activeSessions[id])
  /\ Len(intervals[id]) < MaxTimers
  /\ LET T == StartSessionTimer(timers, intervals, id, activeSessions[id])
     IN /\ activeSessions' = [activeSessions EXCEPT ![id].status = "active"]
        /\ timers' = T.timers
        /\ intervals' = T.intervals
  /\ UNCHANGED <<store, captures, files, inflight, initialized, succ, failed, restarted, result>>

\* stopSession from a handler, and from the tick that finds the limit reached
StopSessionWriteFails(id) ==
  /\ initialized
  /\ KnownSession(activeSessions[id])
  /\ LET C == ClearTimer(timers, intervals, id)
     IN /\ timers' = C.timers
        /\ intervals' = C.intervals
        /\ activeSessions' = [activeSessions EXCEPT ![id] = NoSession]
  /\ UNCHANGED <<store, captures, files, inflight, initialized, succ, failed, restarted, result>>

WriteFailConfigs == {Config("screenshot", 10, 2), Config("screenshot", 5, 0)}

NextWriteFails ==
  \/ Initialize
  \/ ResumeActiveSessions
  \/ \E config \in WriteFailConfigs : StartSession(config)
  \/ \E id \in Ids : PauseSession(id)
  \/ \E id \in Ids : ResumeSession(id)
  \/ \E id \in Ids : StopSession(id)
  \/ \E id \in Ids : \E k \in 1..MaxTimers : TickClear(id, k)
  \/ \E id \in Ids : \E k \in 1..MaxTimers : TickStop(id, k)
  \/ \E id \in Ids : \E k \in 1..MaxTimers : TickCapture(id, k)
  \/ \E id \in Ids : \E k \in 1..MaxInflight : CaptureDone(id, k, AllSucceed)
  \/ \E id \in Ids : PauseSessionWriteFails(id)
  \/ \E id \in Ids : ResumeSessionWriteFails(id)
  \/ \E id \in Ids : StopSessionWriteFails(id)

SpecWriteFails == Init /\ [][NextWriteFails]_vars

\* ----- the start-interval-capture handler of ElectronCaptureApp ----------
\* IntervalManager has a method named hasActiveSession
HasActiveSessionDefined == FALSE

\* updateTrayMenu -> buildTrayContextMenu -> buildSessionsMenu throws: with
\* a session in the registry it calls this.intervalManager.hasActiveSession()
\* (the handlers are registered after createTray, so this.tray is set)
BuildSessionsMenuThrows(as) ==
  (\E id \in Ids : as[id] # NoSession) /\ ~HasActiveSessionDefined

\* the handler: startSession, then updateTrayMenu, then the reply; an
\* exception of either gives the reply {success: false, error}
StartIntervalCapture(config) ==
  /\ initialized
  /\ \E id \in Ids : store[id] = NoRow
  /\ IF ~InsertAccepted(config)
     THEN /\ UNCHANGED <<store, activeSessions, timers, intervals>>
          /\ result' = [type |-> "start-interval-capture", created |-> 0, success |-> FALSE]
     ELSE LET id == FreshId
              T  == StartSessionTimer(timers, intervals, id, config)
              as == [activeSessions EXCEPT ![id] = NewSession(config)]
          IN /\ store' = InsertSession(store, id, config)
             /\ timers' = T.timers
             /\ intervals' = T.intervals
             /\ activeSessions' = as
             /\ result' = [type |-> "start-interval-capture", created |-> id,
                           success |-> ~BuildSessionsMenuThrows(as)]
  /\ UNCHANGED <<captures, files, inflight, initialized, succ, failed, restarted>>

NextHandlers ==
  \/ Initialize
  \/ \E config \in Configs \cup BadTypeConfigs : StartIntervalCapture(config)
  \/ \E id \in Ids : PauseSession(id)
  \/ \E id \in Ids : ResumeSession(id)
  \/ \E id \in Ids : StopSession(id)
  \/ \E id \in Ids : \E k \in 1..MaxTimers : TickCapture(id, k)

SpecHandlers == Init /\ [][NextHandlers]_vars

TypeOK ==
  /\ \A id \in Ids : timers[id] \in 0..Len(intervals[id])
  /\ \A id \in Ids : Len(intervals[id]) <= MaxTimers + 1

\* ===== claims ===========================================================
Persisted(id) == store[id] # NoRow
Terminal(status) == status \in {"completed", "cancelled"}
Bounded(id) == Persisted(id) /\ store[id].max_captures # 0

\* C1: for every session none of whose ticks had a failing capture, the
\* persisted captureCount equals the number of its successful ticks, and so
\* does the in-memory captureCount while the session is registered, whatever
\* the other sessions did in between.
C1_CountIsSuccessfulTicks ==
  \A id \in Ids :
    Persisted(id) /\ ~failed[id] =>
      /\ store[id].capture_count = succ[id]
      /\ Registered(id) => activeSessions[id].capture_count = succ[id]

\* two sessions have both ticked successfully, one of them twice
C1_Witness ==
  \E a \in Ids : \E b \in Ids \ {a} :
    /\ Persisted(a) /\ Persisted(b)
    /\ ~failed[a] /\ ~failed[b]
    /\ succ[a] = 2 /\ succ[b] >= 1
    /\ Registered(a) /\ activeSessions[a].capture_count = 2

\* C2: a registered session with maxCaptures set and status active has
\* captureCount <= maxCaptures, in memory and in the Store.
C2_ActiveCountWithinMax ==
  \A id \in Ids :
    Registered(id) /\ activeSessions[id].status = "active"
      /\ activeSessions[id].max_captures # 0 =>
        /\ activeSessions[id].capture_count <= activeSessions[id].max_captures
        /\ store[id].capture_count <= store[id].max_captures

\* C3: once the persisted captureCount of a bounded session has reached
\* maxCaptures, no step starts a capture of that session and no step counts
\* another capture for it.
C3_NoTickAfterMax ==
  [][\A id \in Ids :
       Bounded(id) /\ store[id].capture_count >= store[id].max_captures =>
         /\ store'[id].capture_count = store[id].capture_count
         /\ Len(inflight'[id]) <= Len(inflight[id])]_vars

\* C4: every registered session with status active has exactly one live
\* recurring timer.
C4_OneTimerPerActiveSession ==
  \A id \in Ids :
    Registered(id) /\ activeSessions[id].status = "active" =>
      Len(intervals[id]) = 1

\* C5: resumeSession on a paused session leaves exactly one live timer for
\* the session, and its period is the session's intervalSeconds.
C5_ResumeArmsOneTimer ==
  [][\A id \in Ids :
       ResumeSession(id) /\ Registered(id) /\ activeSessions[id].status = "paused" =>
         /\ Len(intervals'[id]) = 1
         /\ intervals'[id][1].period_ms = store[id].interval_seconds * 1000]_vars

\* the state resumeActiveSessions has to establish at startup
RecoveredState ==
  \A id \in Ids :
    /\ Registered(id) <=> store[id].status \in {"active", "paused"}
    /\ Registered(id) =>
         /\ activeSessions[id].capture_count = store[id].capture_count
         /\ activeSessions[id].status = store[id].status
    /\ Len(intervals[id]) = (IF store[id].status = "active" THEN 1 ELSE 0)
    /\ timers[id] = Len(intervals[id])

\* C6: the first resumeActiveSessions of a process registers exactly the
\* persisted active and paused sessions with their persisted counts and arms
\* one timer for each active one and none for the others; a paused session
\* without a timer gets none before resumeSession is called for it.
C6_RecoveryRestoresRegistry ==
  [][/\ Initialize => RecoveredState'
     /\ \A id \in Ids :
          /\ store[id].status = "paused" /\ intervals[id] = <<>>
          /\ ~ResumeSession(id)
          => intervals'[id] = <<>>]_vars

\* after a restart: an active session with captures and a paused one, both
\* registered, only the active one with a timer
C6_Witness ==
  /\ restarted /\ initialized
  /\ \E a \in Ids : \E b \in Ids \ {a} :
       /\ store[a].status = "active" /\ store[a].capture_count >= 1
       /\ Registered(a) /\ activeSessions[a].capture_count = store[a].capture_count
       /\ Len(intervals[a]) = 1
       /\ store[b].status = "paused" /\ Registered(b) /\ intervals[b] = <<>>

C8_StopStatusByCause ==
  [][\A id \in Ids :
       /\ StopSession(id) /\ Registered(id) =>
            store'[id].status = "cancelled" /\ store'[id].end_time = "now"
       /\ (\E k \in 1..MaxTimers : TickStop(id, k)) =>
            store'[id].status = "completed" /\ store'[id].end_time = "now"]_vars

\* C9: a persisted status completed or cancelled never changes.
C9_TerminalIsFinal ==
  [][\A id \in Ids :
       Terminal(store[id].status) => store'[id].status = store[id].status]_vars

\* a stopped session whose in-flight capture completed after the stop, in a
\* process that went through a restart
C9_Witness ==
  \E id \in Ids :
    /\ Terminal(store[id].status) /\ ~Registered(id)
    /\ Bounded(id) /\ store[id].capture_count > store[id].max_captures
    /\ restarted /\ initialized

\* C10: startSession(config) persists a row with status active and
\* captureCount 0 under a fresh id, registers the same session in memory
\* with status active and captureCount 0, and arms exactly one timer of
\* period intervalSeconds for it, which the timer table holds.
C10_StartSessionPostcondition ==
  [][\A config \in Configs :
       StartSession(config) =>
         LET id == FreshId
         IN /\ store'[id].status = "active" /\ store'[id].capture_count = 0
            /\ store'[id].capture_type = config.capture_type
            /\ store'[id].interval_seconds = config.interval_seconds
            /\ store'[id].max_captures = config.max_captures
            /\ store'[id].end_time = "null"
            /\ activeSessions'[id] = NewSession(config)
            /\ Len(intervals'[id]) = 1 /\ timers'[id] = 1
            /\ intervals'[id][1].period_ms = config.interval_seconds * 1000
            /\ \A other \in Ids \ {id} : store'[other] = store[other]]_vars

\* a freshly started second session next to a first one that has captured
C10_Witness ==
  \E id \in Ids : \E other \in Ids \ {id} :
    /\ store[id].status = "active" /\ store[id].capture_count = 0
    /\ Registered(id) /\ activeSessions[id].status = "active"
    /\ activeSessions[id].capture_count = 0
    /\ timers[id] = 1 /\ Len(intervals[id]) = 1
    /\ intervals[id][1].period_ms = 10000 /\ store[id].interval_seconds = 10
    /\ Persisted(other) /\ store[other].capture_count >= 1

\* C11: startSession with intervalSeconds <= 0 creates no session: the
\* Store, the registry and the timers are unchanged.
C11_BadIntervalRejected ==
  [][\A config \in BadIntervalConfigs :
       StartSession(config) => UNCHANGED <<store, activeSessions, timers, intervals>>]_vars

\* C12: startSession with a captureType outside the four variants persists
\* no row, registers nothing and arms no timer.
C12_BadTypeRejected ==
  [][\A config \in BadTypeConfigs :
       StartSession(config) => UNCHANGED <<store, activeSessions, timers, intervals>>]_vars

\* a state in which such a call was made and rejected: the process is up, an
\* id is still free and an earlier session is running untouched
C12_Witness ==
  /\ initialized
  /\ \E id \in Ids : store[id] = NoRow
  /\ \E id \in Ids : Registered(id) /\ Len(intervals[id]) = 1 /\ store[id].capture_count >= 1
  /\ \A id \in Ids : Persisted(id) => store[id].capture_type \in CaptureTypes

\* C13: resumeSession on a registered session that is not paused changes
\* nothing: status, captureCount, timers and the persisted row stay as they
\* are, and no second timer is armed.
C13_ResumeNotPausedIsNoOp ==
  [][\A id \in Ids :
       ResumeSession(id) /\ Registered(id) /\ activeSessions[id].status # "paused"
         => UNCHANGED vars]_vars

\* an active session with its one timer and a capture in flight, on which
\* resumeSession is rejected
C13_Witness ==
  \E id \in Ids :
    /\ initialized /\ Registered(id) /\ activeSessions[id].status = "active"
    /\ store[id].status = "active"
    /\ timers[id] = 1 /\ Len(intervals[id]) = 1 /\ Len(inflight[id]) = 1

\* C14: pauseSession, resumeSession and stopSession on an id that is not in
\* the registry (never started, or already stopped) change nothing.
C14_UnknownIdIsNoOp ==
  [][\A id \in Ids :
       /\ ~Registered(id)
       /\ PauseSession(id) \/ ResumeSession(id) \/ StopSession(id)
       => UNCHANGED vars]_vars

\* one id was never started and the other is stopped with a persisted row
C14_Witness ==
  /\ initialized
  /\ \E a \in Ids : \E b \in Ids \ {a} :
       /\ ~Persisted(a) /\ ~Registered(a)
       /\ Persisted(b) /\ ~Registered(b) /\ store[b].status = "completed"
       /\ store[b].end_time = "now"

C16_BothThrowsIffBothFail ==
  result.type = "both" =>
    /\ result.thrown <=> (~result.o.screen /\ ~result.o.camera)
    /\ result.o.screen /\ ~result.o.camera =>
         /\ result.value.primary = "screenshot"
         /\ result.value.screenshot = "result" /\ result.value.camera = "null"
    /\ ~result.o.screen /\ result.o.camera =>
         /\ result.value.primary = "camera"
         /\ result.value.camera = "result" /\ result.value.screenshot = "null"

\* C17: a composite call whose camera or screenshot sub-capture fails throws
\* to its caller.
C17_CompositeFailureThrows ==
  result.type = "composite" /\ (~result.o.screen \/ ~result.o.camera) => result.thrown

\* C18: a composite capture with a failing sub-capture writes no image file
\* to the save location and inserts no row into the captures table.
C18_FailedCompositeWritesNothing ==
  [][\A id \in Ids : \A k \in 1..MaxInflight : \A o \in Outcomes :
       /\ CaptureForIntervalReturn(id, k, o)
       /\ inflight[id][k] = "composite"
       /\ ~o.screen \/ ~o.camera
       => files' = files /\ captures' = captures]_vars

\* a composite call whose camera sub-capture failed has returned, and there
\* is neither a file nor a row
C18_Witness ==
  /\ result.type = "composite" /\ result.o.screen /\ ~result.o.camera
  /\ \A id \in Ids : files[id] = 0 /\ captures[id] = 0

\* C19: a capture in flight when its session is paused or stopped still
\* completes, and a completion that did not throw adds one to the persisted
\* capture_count of the session, whose status stays paused or stopped.
C19_InFlightCaptureStillCounts ==
  [][\A id \in Ids : \A k \in 1..MaxInflight : \A o \in Outcomes :
       /\ k \in 1..Len(inflight[id])
       /\ store[id].status \in {"paused", "completed"}
       /\ ~Thrown(inflight[id][k], o)
       /\ CaptureDone(id, k, o)
       => /\ store'[id].capture_count = store[id].capture_count + 1
          /\ store'[id].status = store[id].status]_vars

\* every capture that was in flight at the stop has completed and is counted
C19_Witness ==
  \E id \in Ids :
    /\ Persisted(id) /\ store[id].status = "completed"
    /\ inflight[id] = <<>> /\ ~failed[id]
    /\ store[id].capture_count = MaxInflight

\* C20: while a capture of session Stuck never returns, every other active
\* session keeps counting captures, and a bounded one reaches completed
\* (fair timer firing, succeeding captures).
C20_OtherSessionsKeepTicking ==
  /\ \A id \in Ids \ {Stuck} : \A n \in 0..(MaxCount - 1) :
       (/\ inflight[Stuck] # <<>>
        /\ Persisted(id) /\ store[id].status = "active" /\ store[id].capture_count = n
        /\ store[id].max_captures = 0 \/ n < store[id].max_captures)
       ~> (Persisted(id) /\ store[id].capture_count > n)
  /\ \A id \in Ids \ {Stuck} :
       (inflight[Stuck] # <<>> /\ Bounded(id) /\ store[id].status = "active")
       ~> (store[id].status = "completed")

\* a bounded session has completed while a capture of Stuck is still hanging
C20_Witness ==
  /\ inflight[Stuck] # <<>>
  /\ \E id \in Ids \ {Stuck} :
       /\ Bounded(id) /\ store[id].status = "completed"
       /\ store[id].capture_count >= store[id].max_captures

C24_OverlayFitsAndIsAnchored ==
  result.type = "overlay" =>
    LET L == result.layout
    IN /\ AtMost(L.cameraWidth, QuarterOf(result.W))
       /\ AtMost(L.cameraHeight, QuarterOf(result.H))
       /\ Same(Sum(Sum(L.cameraX, L.cameraWidth), NumberOf(paddingX)), NumberOf(result.W))
       /\ Same(Sum(Sum(L.cameraY, L.cameraHeight), NumberOf(paddingY)), NumberOf(result.H))

\* C22: resumeActiveSessions writes nothing to the Store, and every session
\* it recovers is registered under its persisted id with its persisted
\* status and capture count.
C22_RecoveryLeavesStoreAlone ==
  [][Initialize \/ ResumeActiveSessions =>
       /\ store' = store
       /\ \A id \in Ids :
            store[id].status \in {"active", "paused"} =>
              /\ activeSessions'[id] # NoSession
              /\ activeSessions'[id].status = store[id].status
              /\ activeSessions'[id].capture_count = store[id].capture_count
              /\ activeSessions'[id].capture_type = store[id].capture_type
              /\ activeSessions'[id].max_captures = store[id].max_captures
       /\ \A id \in Ids :
            store[id].status \notin {"active", "paused"} =>
              activeSessions'[id] = activeSessions[id]]_vars

\* resumeActiveSessions has run again in a running process for a paused
\* session and for an active one that already had captures
C22_Witness ==
  /\ initialized /\ ~restarted
  /\ \E a \in Ids : \E b \in Ids \ {a} :
       /\ store[a].status = "active" /\ store[a].capture_count >= 1
       /\ Len(intervals[a]) = 2
       /\ Registered(a) /\ activeSessions[a].capture_count = store[a].capture_count
       /\ store[b].status = "paused" /\ Registered(b)
       /\ activeSessions[b].status = "paused"

\* C23: getSessionStats returns null exactly for an id that is not
\* registered; for a registered session the progress percentage is
\* capture_count / max_captures * 100 rounded to a nearest integer when
\* max_captures is set and null when it is not; the call changes no state.
C23_StatsProgress ==
  [][\A id \in Ids :
       result = NoResult /\ result'.type = "stats" /\ result'.id = id =>
         /\ UNCHANGED <<store, captures, files, activeSessions, timers, intervals,
                        inflight, initialized>>
         /\ result'.value = Null <=> ~Registered(id)
         /\ Registered(id) =>
              LET n   == activeSessions[id].capture_count
                  max == activeSessions[id].max_captures
                  p   == result'.value.progress_percentage
              IN IF max = 0 THEN p = Null
                 ELSE /\ p.kind = "number" /\ p.value \in Nat
                      /\ 2 * (p.value * max - 100 * n) <= max
                      /\ 2 * (100 * n - p.value * max) <= max]_vars

\* the stats of a session with 2 of 3 captures: 67 percent
C23_Witness ==
  /\ result.type = "stats" /\ result.registered
  /\ result.value.capture_count = 2 /\ result.value.max_captures = 3
  /\ result.value.progress_percentage = NumberValue(67)

\* C25: a tick whose capture fails changes nothing in its session: the
\* persisted row, the registry entry and the timer are as before (for every
\* capture type, composite included), so only successful captures count.
C25_FailedTickChangesNothing ==
  [][\A id \in Ids : \A k \in 1..MaxInflight : \A o \in Outcomes :
       /\ k \in 1..Len(inflight[id])
       /\ ~Succeeded(inflight[id][k], o)
       /\ CaptureDone(id, k, o)
       => /\ store'[id] = store[id]
          /\ activeSessions'[id] = activeSessions[id]
          /\ timers'[id] = timers[id] /\ intervals'[id] = intervals[id]]_vars

\* C26: a timer firing for a session that is not registered or not active
\* starts no capture and writes nothing to the Store, and when it returns
\* no timer is armed for that id any more (stated on the state in which the
\* timer fires: what its clearTimer leaves).
C26_StaleTickCancelsAllTimers ==
  \A id \in Ids : \A k \in 1..MaxTimers :
    /\ k \in 1..Len(intervals[id])
    /\ ~TickRuns(activeSessions[id])
    => LET C == ClearTimer(timers, intervals, id)   \* what TickClear(id, k) leaves
       IN C.timers[id] = 0 /\ C.intervals[id] = <<>>

\* C27: for every registered session none of whose ticks is between its
\* database increment and the refresh of the in-memory count, the in-memory
\* captureCount equals the persisted captureCount.
C27_CountsAgreeOutsideRefresh ==
  \A id \in Ids :
    /\ Registered(id)
    /\ \A k \in 1..Len(inflight[id]) : inflight[id][k] # Incremented
    => /\ Persisted(id)
       /\ activeSessions[id].capture_count = store[id].capture_count

\* a registered session has counted two captures, one more capture of it
\* is still in flight and the other session is inside its refresh window
C27_Witness ==
  \E id \in Ids : \E other \in Ids \ {id} :
    /\ Registered(id)
    /\ store[id].capture_count = 2
    /\ activeSessions[id].capture_count = 2
    /\ Len(inflight[id]) = 1 /\ inflight[id][1] # Incremented
    /\ Registered(other)
    /\ \E k \in 1..Len(inflight[other]) : inflight[other][k] = Incremented
    /\ activeSessions[other].capture_count # store[other].capture_count

\* C28: while a session is not terminal its captureCount, persisted and
\* in-memory, is at least 0 and no step (tick, pause, resume, stop,
\* resumeActiveSessions, overlapping ticks of the session) decreases it.
C28_CountNeverDecreases ==
  [][\A id \in Ids :
       Persisted(id) /\ ~Terminal(store[id].status)
       => /\ store[id].capture_count >= 0
          /\ store'[id] # NoRow
          /\ store'[id].capture_count >= store[id].capture_count
          /\ Registered(id) => activeSessions[id].capture_count >= 0
          /\ Registered(id) /\ activeSessions'[id] # NoSession
             => activeSessions'[id].capture_count >= activeSessions[id].capture_count]_vars

\* a paused session that has counted a capture, was re-registered by a
\* second resumeActiveSessions and has two overlapping ticks under way, one
\* of them past its increment
C28_Witness ==
  \E id \in Ids :
    /\ Registered(id)
    /\ activeSessions[id].status = "paused"
    /\ activeSessions[id].capture_count >= 1
    /\ Len(intervals[id]) >= 1
    /\ Len(inflight[id]) = 2
    /\ inflight[id][1] = Incremented
    /\ inflight[id][2] # Incremented

\* C29: in every reachable state a persisted session has an endTime if and
\* only if its persisted status is completed or cancelled; starting,
\* pausing, resuming and capturing leave the endTime unset.
C29_EndTimeIffTerminal ==
  \A id \in Ids :
    Persisted(id) => (store[id].end_time # "null" <=> Terminal(store[id].status))

\* one session was stopped and carries its end time; another one has
\* counted a capture, is active with its timer armed, and carries none
C29_Witness ==
  \E id \in Ids : \E other \in Ids \ {id} :
    /\ Persisted(id) /\ Terminal(store[id].status) /\ store[id].end_time = "now"
    /\ Persisted(other) /\ store[other].status = "active"
    /\ store[other].capture_count >= 1
    /\ store[other].end_time = "null"
    /\ Len(intervals[other]) = 1 /\ timers[other] = 1
    /\ Registered(other)

\* C30: pauseSession, resumeSession, stopSession and a tick of session A
\* (its callback and the completion of the capture it started) leave every
\* other session B as it was: B's row with its status and count, B's
\* registry entry with its status and count, B's mapped timer handle and
\* B's live intervals.
C30_OtherSessionsUntouched ==
  [][\A a \in Ids :
       \/ PauseSession(a)
       \/ ResumeSession(a)
       \/ StopSession(a)
       \/ \E k \in 1..MaxTimers : TickClear(a, k) \/ TickStop(a, k) \/ TickCapture(a, k)
       \/ \E k \in 1..MaxInflight : \E o \in Outcomes : CaptureDone(a, k, o)
       => \A b \in Ids \ {a} :
            /\ store'[b] = store[b]
            /\ activeSessions'[b] = activeSessions[b]
            /\ timers'[b] = timers[b]
            /\ intervals'[b] = intervals[b]]_vars

\* session 1 has been stopped by its own tick at the limit while session 2
\* is registered and active with a count, an armed timer and a capture
\* under way
C30_Witness ==
  /\ Persisted(1) /\ store[1].status = "completed" /\ store[1].max_captures = 2
  /\ store[1].capture_count >= 2
  /\ Registered(2) /\ activeSessions[2].status = "active"
  /\ activeSessions[2].capture_count = 1
  /\ timers[2] # 0
  /\ Len(inflight[2]) = 1

\* C31: in every reachable state the registry holds only sessions whose
\* status is active or paused, and a session id has a live timer or a
\* mapped timer handle only if it is registered with status active.
C31_TimersOnlyForActiveRegistered ==
  \A id \in Ids :
    /\ Registered(id) => activeSessions[id].status \in {"active", "paused"}
    /\ (intervals[id] # <<>> \/ timers[id] # 0)
       => Registered(id) /\ activeSessions[id].status = "active"

\* C32: at most one capture of a session is in flight at any time: no tick
\* of a session starts a capture while the capture of an earlier tick of
\* that session has not finished.
C32_OneCaptureInFlight ==
  \A id \in Ids : Len(inflight[id]) <= 1

\* C33: for a session with max_captures = M the ticks of the session write
\* at most M image files and insert at most M capture records, whatever
\* the capture type.
C33_FilesAndRecordsWithinMax ==
  \A id \in Ids :
    Bounded(id) => /\ files[id] <= store[id].max_captures
                   /\ captures[id] <= store[id].max_captures

\* C34: once no tick of a session is in flight, the persisted capture_count
\* equals the number of capture records its ticks inserted, whatever the
\* capture type.
C34_CountIsNumberOfRecords ==
  \A id \in Ids :
    Persisted(id) /\ inflight[id] = <<>> => store[id].capture_count = captures[id]

\* C35: once stopSession has removed a session from the registry, whether
\* or not its database write succeeded, no later step registers the session
\* again or arms a timer for it; resumeActiveSessions does not bring it back.
\* (In a process that is not restarted, a persisted session is out of the
\* registry only through stopSession.)
C35_StoppedSessionStaysOut ==
  [][\A id \in Ids :
       initialized /\ Persisted(id) /\ ~Registered(id)
       => /\ activeSessions'[id] = NoSession
          /\ timers'[id] = 0
          /\ Len(intervals'[id]) <= Len(intervals[id])]_vars

\* C36: when no database write fails, after startSession, pauseSession,
\* resumeSession and resumeActiveSessions have returned, however they
\* interleave with each other and with ticks, the in-memory status of every
\* registered session equals its persisted status.
C36_StatusInMemoryIsPersisted ==
  \A id \in Ids :
    Registered(id) => Persisted(id) /\ activeSessions[id].status = store[id].status

\* one session was paused with a capture under way and is paused in both
\* places; the other one was registered a second time by
\* resumeActiveSessions and is active in both places
C36_Witness ==
  \E id \in Ids : \E other \in Ids \ {id} :
    /\ Registered(id) /\ activeSessions[id].status = "paused"
    /\ store[id].status = "paused" /\ inflight[id] # <<>>
    /\ Registered(other) /\ activeSessions[other].status = "active"
    /\ store[other].status = "active" /\ Len(intervals[other]) = 2

\* C37: the start-interval-capture handler replies success: true exactly
\* when startSession created the session; it never replies success: false
\* for a session that was persisted and registered and has its timer armed.
C37_StartReplyTellsCreation ==
  result.type = "start-interval-capture" =>
    (result.success <=> result.created # 0)


\* C38: pauseSession on a registered session that is already paused changes
\* nothing: status stays paused in memory and in the Store, both capture
\* counts stay as they are, and no timer of the session is armed, neither a
\* handle in the timer table nor a live interval.
C38_PauseOfPausedChangesNothing ==
  \A id \in Ids :
    Registered(id) /\ activeSessions[id].status = "paused"
    => LET C == ClearTimer(timers, intervals, id)   \* what PauseSession(id) leaves
           S == UpdateSessionStatus(store, id, "paused")
           A == [activeSessions EXCEPT ![id].status = "paused"]
       IN /\ A = activeSessions
          /\ S = store
          /\ C.timers = timers /\ C.intervals = intervals
          /\ C.timers[id] = 0 /\ C.intervals[id] = <<>>

====
